---- MODULE Spec2Model ----
(***************************************************************************)
(* Slot availability engine of the reservation admin panel                 *)
(* (utils/slotLogic.ts, utils/time.ts).                                    *)
(*                                                                         *)
(* A JavaScript Date is modelled as an integer number of minutes since the *)
(* epoch (UTC); every Date the engine builds has zero seconds and          *)
(* milliseconds and moves in multiples of 60000 ms, so minutes lose        *)
(* nothing.  The runtime's local zone is a UTC offset tz (local = UTC +    *)
(* tz) that is constant over the computation day (no daylight-saving       *)
(* transition falls on it).  A calendar date string                        *)
(* "YYYY-MM-DD" is modelled as its day number since 1970-01-01, and a time *)
(* string "HH:MM" as the pair <<h, m>>.                                    *)
(*                                                                         *)
(* Around the engine, the components that call it or write the store are  *)
(* followed handler by handler: App (session gate), Dashboard (figures and *)
(* staff briefing), ReservationModal (requests, form, save) and            *)
(* ReservationsList (status changes).  A request in flight is an element   *)
(* of a collection from which any element may be answered next.            *)
(***************************************************************************)
EXTENDS Integers, Sequences, FiniteSets, TLC

VARIABLES
    tz,                   \* runtime: local zone offset from UTC, minutes
    date,                 \* argument: Date (minutes since epoch)
    covers,               \* argument: party size
    settings,             \* argument: [turnoverMinutes, openingHours]
    reservations,         \* argument: sequence of [id, tableId, time]
    tables,               \* argument: sequence of [id, capacity, isReady]
    specialOpeningHours,  \* argument: sequence of [date, isOpen, openTime, closeTime]
    pc,                   \* "call" | "loop" | "returned" | "thrown"
    eligibleTables,       \* local of calculateAvailableSlots
    closingTime,          \* local
    currentTime,          \* local
    availableSlots,       \* local: the slots pushed so far
    candidates,           \* history: timeStr of every loop iteration so far
    result,               \* the returned array, valid when pc = "returned"
    earlier,              \* history: [covers, result] of the calls made before
    store,                \* the reservations table of the store
    sessions,             \* the open reservation modals, one per booking session
    session,              \* App: the auth session held in state, or Null
    activeView,           \* App: the view chosen in the sidebar
    authSession,          \* the auth client's stored session, or Null
    authEvents,           \* auth state changes not yet delivered to App
    dashboard,            \* Dashboard: its state and the briefing call in flight
    modal,                \* ReservationModal followed request by request
    pending,              \* the modal's requests in flight
    list                  \* ReservationsList: its state

inputs == <<tz, date, covers, settings, reservations, tables, specialOpeningHours>>
locals == <<eligibleTables, closingTime, currentTime, availableSlots, candidates>>
panel == <<session, activeView, authSession, authEvents, dashboard, modal, pending, list>>
outside == <<earlier, store, sessions, panel>>
vars == <<inputs, locals, pc, result, outside>>

-----------------------------------------------------------------------------
(* Values *)

\* a missing property, undefined or null: falsy, and .split on it throws
Absent == <<-1>>
\* the empty string '': falsy, but .split(':') on it yields ['']
EmptyString == <<>>
\* Invalid Date (time value NaN): every comparison with it is false
NaN == -1

MinutesPerDay == 24 * 60

Falsy(s) == s = Absent \/ s = EmptyString

\* mutant: a <= b
DateLessOrEqual(a, b) == a # NaN /\ b # NaN /\ a <= b

\* Date relational comparison a < b (false when either is NaN)
DateLess(a, b) == a # NaN /\ b # NaN /\ a < b

Min(S) == CHOOSE x \in S : \A y \in S : x <= y

-----------------------------------------------------------------------------
(* JavaScript Date operations, in minutes *)

\* local calendar day number of a Date
LocalDay(d) == (d + tz) \div MinutesPerDay

\* new Date(d).setHours(h, m, 0, 0): same local day, given local wall time
setHours(d, h, m) == LocalDay(d) * MinutesPerDay + h * 60 + m - tz

getHours(d) == ((d + tz) % MinutesPerDay) \div 60
getMinutes(d) == (d + tz) % 60

\* date.toISOString().split('T')[0]: the UTC calendar date
dateString(d) == d \div MinutesPerDay

DayNames == <<"thursday", "friday", "saturday", "sunday",
              "monday", "tuesday", "wednesday">>

\* mutant: the weekday of the UTC date (getUTCDay)
getDayOfWeekUTC(d) == DayNames[((d \div MinutesPerDay) % 7) + 1]

\* date.toLocaleDateString('en-US', {weekday: 'long'}).toLowerCase();
\* day 0 (1970-01-01) is a Thursday
getDayOfWeek(d) == DayNames[(LocalDay(d) % 7) + 1]

\* s.split(':').map(Number) followed by setHours on a copy of d
\* ('' gives [0] and setHours(0, undefined) is an Invalid Date)
parseOnDate(d, s) == IF s = EmptyString THEN NaN ELSE setHours(d, s[1], s[2])

\* mutant: 12-hour clock
timeStr12(d) == <<getHours(d) % 12, getMinutes(d)>>

\* `${String(getHours()).padStart(2,'0')}:${String(getMinutes()).padStart(2,'0')}`
timeStr(d) == <<getHours(d), getMinutes(d)>>

-----------------------------------------------------------------------------
(* calculateAvailableSlots, piece by piece *)

SlotMinutes == 15

\* specialOpeningHours.find(h => h.date === dateString): the first match,
\* as a sequence of zero (undefined) or one row
find(rows, ds) ==
    LET idx == {i \in 1..Len(rows) : rows[i].date = ds}
    IN  IF idx = {} THEN <<>> ELSE <<rows[Min(idx)]>>

\* mutant: the special row's isOpen flag is not looked at
effectiveOpeningHoursNoFlag(d, st, rows) ==
    LET specialHour == find(rows, dateString(d))
    IN  IF specialHour # <<>>
        THEN IF Falsy(specialHour[1].openTime) \/ Falsy(specialHour[1].closeTime)
             THEN <<>>
             ELSE <<[open  |-> specialHour[1].openTime,
                     close |-> specialHour[1].closeTime]>>
        ELSE IF getDayOfWeek(d) \in DOMAIN st.openingHours
             THEN <<st.openingHours[getDayOfWeek(d)]>>
             ELSE <<>>

\* mutant: a special row without both times falls back to the weekday default
effectiveOpeningHoursFallBack(d, st, rows) ==
    LET specialHour == find(rows, dateString(d))
    IN  IF /\ specialHour # <<>>
           /\ ~specialHour[1].isOpen
        THEN <<>>
        ELSE IF /\ specialHour # <<>>
                /\ ~Falsy(specialHour[1].openTime)
                /\ ~Falsy(specialHour[1].closeTime)
        THEN <<[open  |-> specialHour[1].openTime,
                close |-> specialHour[1].closeTime]>>
        ELSE IF getDayOfWeek(d) \in DOMAIN st.openingHours
             THEN <<st.openingHours[getDayOfWeek(d)]>>
             ELSE <<>>

\* mutant: the weekday default wins over an open special row
effectiveOpeningHoursDefaultFirst(d, st, rows) ==
    LET specialHour == find(rows, dateString(d))
    IN  IF specialHour # <<>> /\ ~specialHour[1].isOpen
        THEN <<>>
        ELSE IF getDayOfWeek(d) \in DOMAIN st.openingHours
        THEN <<st.openingHours[getDayOfWeek(d)]>>
        ELSE IF specialHour # <<>>
                /\ ~Falsy(specialHour[1].openTime)
                /\ ~Falsy(specialHour[1].closeTime)
        THEN <<[open  |-> specialHour[1].openTime,
                close |-> specialHour[1].closeTime]>>
        ELSE <<>>

\* lines 37-48: the hours the computation uses, as a sequence of zero
\* (undefined, or the early `return []` of the special-day branch) or one
\* [open, close] record
effectiveOpeningHours(d, st, rows) ==
    LET specialHour == find(rows, dateString(d))
    IN  IF specialHour # <<>>
        THEN IF \/ ~specialHour[1].isOpen
                \/ Falsy(specialHour[1].openTime)
                \/ Falsy(specialHour[1].closeTime)
             THEN <<>>
             ELSE <<[open  |-> specialHour[1].openTime,
                     close |-> specialHour[1].closeTime]>>
        ELSE IF getDayOfWeek(d) \in DOMAIN st.openingHours
             THEN <<st.openingHours[getDayOfWeek(d)]>>
             ELSE <<>>

\* line 50: !effectiveOpeningHours || !effectiveOpeningHours.open
isClosed(hours) == hours = <<>> \/ Falsy(hours[1].open)

\* mutant: readiness is not looked at
isEligibleByCapacity(t, cv) == t.capacity >= cv

\* line 54: t.capacity >= covers && t.isReady
isEligible(t, cv) == t.capacity >= cv /\ t.isReady

filterEligible(tbls, cv) ==
    LET keep(t) == isEligible(t, cv) IN SelectSeq(tbls, keep)

\* mutant: the overlap test looks at the reservation's start only
isConflictStartOnly(d, newBookingStartTime, res, turnoverMinutes) ==
    LET resStartTime == setHours(d, res.time[1], res.time[2])
        newBookingEndTime == newBookingStartTime + turnoverMinutes
    IN  newBookingStartTime <= resStartTime /\ newBookingEndTime > resStartTime

\* mutant: closed intervals, as the comment above the test words it
isConflictClosed(d, newBookingStartTime, res, turnoverMinutes) ==
    LET resStartTime == setHours(d, res.time[1], res.time[2])
        resEndTime == resStartTime + turnoverMinutes
        newBookingEndTime == newBookingStartTime + turnoverMinutes
    IN  newBookingStartTime <= resEndTime /\ newBookingEndTime >= resStartTime

\* mutant: the existing reservation is given no duration
isConflictNoTurnover(d, newBookingStartTime, res, turnoverMinutes) ==
    LET resStartTime == setHours(d, res.time[1], res.time[2])
        newBookingEndTime == newBookingStartTime + turnoverMinutes
    IN  newBookingStartTime < resStartTime /\ newBookingEndTime > resStartTime

\* lines 80-91: does the new booking starting at newBookingStartTime
\* overlap the existing reservation res
isConflict(d, newBookingStartTime, res, turnoverMinutes) ==
    LET resStartTime == setHours(d, res.time[1], res.time[2])
        resEndTime == resStartTime + turnoverMinutes
        newBookingEndTime == newBookingStartTime + turnoverMinutes
    IN  newBookingStartTime < resEndTime /\ newBookingEndTime > resStartTime

\* mutant: only the reservations dated the computation date are looked at
availableTablesForSlotSameDate(d, ct, elig, rsv, turnoverMinutes) ==
    LET free(table) ==
            ~ \E i \in 1..Len(rsv) :
                /\ rsv[i].tableId = table.id
                /\ rsv[i].date = dateString(d)
                /\ isConflict(d, ct, rsv[i], turnoverMinutes)
    IN  SelectSeq(elig, free)

\* lines 75-93: the eligible tables with no conflicting reservation
availableTablesForSlot(d, ct, elig, rsv, turnoverMinutes) ==
    LET free(table) ==
            ~ \E i \in 1..Len(rsv) :
                /\ rsv[i].tableId = table.id
                /\ isConflict(d, ct, rsv[i], turnoverMinutes)
    IN  SelectSeq(elig, free)

\* mutant: the slot is pushed even when no table is free
pushSlotAlways(slots, ct, avail) ==
    Append(slots, [time |-> timeStr(ct), availableTables |-> avail])

\* mutant: unshift instead of push
pushSlotFront(slots, ct, avail) ==
    IF Len(avail) > 0
    THEN <<[time |-> timeStr(ct), availableTables |-> avail]>> \o slots
    ELSE slots

\* lines 95-100: availableSlots.push({time, availableTables}) when non-empty
pushSlot(slots, ct, avail) ==
    IF Len(avail) > 0
    THEN Append(slots, [time |-> timeStr(ct), availableTables |-> avail])
    ELSE slots

\* mutant: `const openingTime = date`, so setHours moves the argument itself
argumentAliased(d, moved) == moved

\* lines 63-67, 80: setHours is applied to a copy, `new Date(date)`; the
\* value the argument holds after it
argumentAfterSetHours(d, moved) == d

\* line 103: the next 15-minute interval
nextTime(ct) == ct + SlotMinutes

-----------------------------------------------------------------------------
(* Bounded inputs *)

MaxTables == 2
MaxReservations == 2
MaxSpecial == 1

\* the local calendar days and wall times a Date argument is built from;
\* day 4 is Monday 1970-01-05.  The reservation modal passes local midnight.
LocalDateInputs == {<<4, 0>>, <<4, 23 * 60>>, <<5, 0>>}
TzInputs == {-300, 0, 60}

DateOf(local, offset) == local[1] * MinutesPerDay + local[2] - offset

TableIds == 1..MaxTables
Capacities == {2, 4}
CoversInputs == {3, 5}
TurnoverInputs == {60, 90}

InjectiveSeqs(S, n) ==
    {s \in [1..n -> S] : \A i, j \in 1..n : i # j => s[i] # s[j]}

TableInputs ==
    UNION {{[i \in 1..n |-> [id |-> s[i], capacity |-> c[i], isReady |-> r[i]]] :
               s \in InjectiveSeqs(TableIds, n),
               c \in [1..n -> Capacities],
               r \in [1..n -> BOOLEAN]} : n \in 0..MaxTables}

ResTimes == {<<17, 30>>, <<17, 50>>, <<18, 0>>}
ResPool == {[tableId |-> t, date |-> 4, time |-> x] : t \in TableIds, x \in ResTimes}

\* wall-clock minutes of a well-formed "HH:MM"
Minutes(s) == s[1] * 60 + s[2]

\* the store returns a date's reservations ordered by time
ResKey(r) == Minutes(r.time) * (MaxTables + 1) + r.tableId

ReservationInputs ==
    UNION {{s \in [1..n -> ResPool] :
               \A i \in 1..n : \A j \in 1..n : i < j => ResKey(s[i]) < ResKey(s[j])} :
           n \in 0..MaxReservations}

Evening == [open |-> <<17, 0>>, close |-> <<19, 15>>]

\* what settings.openingHours may hold for monday (<<>>: no entry)
MondayInputs ==
    { <<>>,
      <<Evening>>,
      <<[open |-> <<17, 0>>, close |-> <<22, 0>>]>>,
      <<[open |-> Absent, close |-> <<19, 0>>]>>,
      <<[open |-> EmptyString, close |-> <<19, 0>>]>>,
      <<[open |-> <<17, 0>>, close |-> Absent]>>,
      <<[open |-> <<17, 0>>, close |-> EmptyString]>>,
      <<[open |-> <<18, 0>>, close |-> <<17, 0>>]>>,
      <<[open |-> <<18, 0>>, close |-> <<18, 0>>]>> }

Neighbours == [open |-> <<17, 0>>, close |-> <<18, 0>>]

\* the weekly mapping: a monday entry or none, and the days around it
\* either both configured or both absent
OpeningHoursOf(monday, around) ==
    [day \in (IF monday = <<>> THEN {} ELSE {"monday"})
             \cup (IF around THEN {"sunday", "tuesday"} ELSE {}) |->
        IF day = "monday" THEN monday[1] ELSE Neighbours]

OpeningHoursInputs ==
    {OpeningHoursOf(monday, around) : monday \in MondayInputs, around \in BOOLEAN}

SpecialRows ==
    [date : {3, 4, 5}, isOpen : BOOLEAN,
     openTime : {Absent, <<17, 30>>}, closeTime : {Absent, <<18, 30>>}]

\* the store keys special hours by date: at most one row per date
SpecialInputs ==
    UNION {{s \in [1..n -> SpecialRows] :
               \A i, j \in 1..n : i # j => s[i].date # s[j].date} :
           n \in 0..MaxSpecial}

TheTable == [id |-> 1, capacity |-> 4, isReady |-> TRUE]

\* Settings.handleHoursChange (lines 43-50): set one field of a day's entry;
\* a day without an entry gets one that holds this field only
handleHoursChange(openingHours, day, type, value) ==
    LET old == IF day \in DOMAIN openingHours
               THEN openingHours[day]
               ELSE [open |-> Absent, close |-> Absent]
    IN  [d \in DOMAIN openingHours \cup {day} |->
            IF d = day THEN [old EXCEPT ![type] = value] ELSE openingHours[d]]

ScenarioHours == [open |-> <<17, 0>>, close |-> <<19, 0>>]

\* the weekly hours of the scenarios, and what the Settings screen leaves
\* after only the open field of an unconfigured monday was edited
ScenarioOpeningHours ==
    { OpeningHoursOf(<<ScenarioHours>>, FALSE),
      handleHoursChange(OpeningHoursOf(<<>>, FALSE), "monday", "open", <<17, 0>>) }

\* none, or one reservation on the table, dated the computation day (4) or
\* the Monday after (11)
ScenarioReservations ==
    {<<>>} \cup {<<[tableId |-> 1, date |-> d, time |-> x]>> :
                    d \in {4, 11}, x \in {<<17, 30>>, <<18, 45>>}}

ScenarioSpecial ==
    { <<>>,
      <<[date |-> 4, isOpen |-> FALSE, openTime |-> Absent, closeTime |-> Absent]>> }

-----------------------------------------------------------------------------
(* The state machine: one call of calculateAvailableSlots *)

LocalsInit ==
    /\ eligibleTables = <<>>
    /\ closingTime = 0
    /\ currentTime = 0
    /\ availableSlots = <<>>
    /\ candidates = <<>>
    /\ result = <<>>
    /\ pc = "call"

\* inputs that vary the date, the runtime zone and the opening hours
InitHours ==
    /\ tz \in TzInputs
    /\ \E local \in LocalDateInputs : date = DateOf(local, tz)
    /\ covers = 2
    /\ \E oh \in OpeningHoursInputs :
          settings = [turnoverMinutes |-> 60, openingHours |-> oh]
    /\ reservations \in {<<>>, <<[tableId |-> 1, date |-> 4, time |-> <<18, 0>>]>>}
    /\ tables = <<TheTable>>
    /\ specialOpeningHours \in SpecialInputs

\* inputs that vary the tables, the reservations, the party and the turnover
InitTables ==
    /\ tz = 0
    /\ date = DateOf(<<4, 0>>, 0)
    /\ covers \in CoversInputs
    /\ \E t \in TurnoverInputs :
          settings = [turnoverMinutes |-> t,
                      openingHours |-> OpeningHoursOf(<<Evening>>, FALSE)]
    /\ reservations \in ReservationInputs
    /\ tables \in TableInputs
    /\ specialOpeningHours = <<>>

\* the scenarios of the specification: one table of capacity 4, a party of
\* two, turnover 90, a Monday at local midnight
InitScenarios ==
    /\ tz \in TzInputs
    /\ date = DateOf(<<4, 0>>, tz)
    /\ covers = 2
    /\ \E oh \in ScenarioOpeningHours :
          settings = [turnoverMinutes |-> 90, openingHours |-> oh]
    /\ reservations \in ScenarioReservations
    /\ \E ready \in BOOLEAN :
          tables = <<[id |-> 1, capacity |-> 4, isReady |-> ready]>>
    /\ specialOpeningHours \in ScenarioSpecial

\* no session (useState(null), App line 52)
Null == "null"

\* Dashboard lines 26-29 before anything was fetched; call is the state of
\* the generateStaffBriefing promise, modelCall how its request to the model
\* ended, apiKey whether process.env.API_KEY is set
DashboardIdle ==
    [reservations |-> <<>>, error |-> FALSE, fetch |-> "none",
     briefing |-> "", isLoadingBriefing |-> FALSE,
     call |-> [state |-> "none", value |-> ""], modelCall |-> "none",
     apiKey |-> FALSE]

\* no ReservationModal is mounted (isModalOpen false, ReservationsCalendar line 25)
ModalClosed == [open |-> FALSE]

\* ReservationsList lines 214-223 before anything was fetched
ListIdle ==
    [reservations |-> <<>>, loading |-> FALSE, isAmountModalOpen |-> FALSE,
     currentReservationId |-> 0]

\* the panel around the engine at rest: signed out, nothing fetched
PanelIdle ==
    /\ session = Null
    /\ activeView = "dashboard"
    /\ authSession = Null
    /\ authEvents = <<>>
    /\ dashboard = DashboardIdle
    /\ modal = ModalClosed
    /\ pending = <<>>
    /\ list = ListIdle

\* no earlier call, an empty store, no modal open
OutsideInit ==
    /\ earlier = <<>>
    /\ store = <<>>
    /\ sessions = <<>>
    /\ PanelIdle

Init == LocalsInit /\ OutsideInit /\ (InitHours \/ InitTables \/ InitScenarios)

\* lines 33-69: resolve the hours, filter the tables, set up the loop
Begin ==
    /\ pc = "call"
    /\ LET hours == effectiveOpeningHours(date, settings, specialOpeningHours)
           elig == filterEligible(tables, covers)
       IN  IF isClosed(hours) \/ Len(elig) = 0
           THEN /\ pc' = "returned"
                /\ result' = <<>>
                /\ UNCHANGED <<locals, date>>
           ELSE IF hours[1].close = Absent
           THEN \* .split on undefined: TypeError
                /\ pc' = "thrown"
                /\ UNCHANGED <<locals, result, date>>
           ELSE /\ pc' = "loop"
                /\ eligibleTables' = elig
                /\ currentTime' = parseOnDate(date, hours[1].open)
                /\ closingTime' = parseOnDate(date, hours[1].close)
                /\ date' = argumentAfterSetHours(date, parseOnDate(date, hours[1].open))
                /\ UNCHANGED <<availableSlots, candidates, result>>
    /\ UNCHANGED <<tz, covers, settings, reservations, tables, specialOpeningHours>>
    /\ UNCHANGED outside

\* mutant: a slot is pushed only when its turnover window ends by closing
LoopStepWindowFits ==
    /\ pc = "loop"
    /\ DateLess(currentTime, closingTime)
    /\ candidates' = Append(candidates, timeStr(currentTime))
    /\ availableSlots' =
          IF currentTime + settings.turnoverMinutes <= closingTime
          THEN pushSlot(availableSlots, currentTime,
                        availableTablesForSlot(date, currentTime, eligibleTables,
                                               reservations, settings.turnoverMinutes))
          ELSE availableSlots
    /\ currentTime' = nextTime(currentTime)
    /\ UNCHANGED <<inputs, eligibleTables, closingTime, pc, result, outside>>

\* lines 71-104: one iteration of the while loop
LoopStep ==
    /\ pc = "loop"
    /\ DateLess(currentTime, closingTime)
    /\ candidates' = Append(candidates, timeStr(currentTime))
    /\ availableSlots' =
          pushSlot(availableSlots, currentTime,
                   availableTablesForSlot(date, currentTime, eligibleTables,
                                          reservations, settings.turnoverMinutes))
    /\ currentTime' = nextTime(currentTime)
    /\ UNCHANGED <<inputs, eligibleTables, closingTime, pc, result, outside>>

\* lines 71, 107: the loop condition fails, return availableSlots
Return ==
    /\ pc = "loop"
    /\ ~DateLess(currentTime, closingTime)
    /\ pc' = "returned"
    /\ result' = availableSlots
    /\ UNCHANGED <<inputs, locals, outside>>

Next == Begin \/ LoopStep \/ Return

Spec == Init /\ [][Next]_vars

-----------------------------------------------------------------------------
(* Properties.  They are stated on the argument values and on wall-clock   *)
(* minutes of the "HH:MM" strings, not on the Dates the engine builds.     *)

\* half-open windows [a, a + len) and [b, b + len) share a minute
WindowsOverlap(a, b, len) == a < b + len /\ b < a + len

\* the reservations supplied for table id
ReservationsOn(id) ==
    {reservations[j] : j \in {k \in 1..Len(reservations) : reservations[k].tableId = id}}

\* table t is blocked at wall-clock time c by some supplied reservation
Blocked(t, c) ==
    \E r \in ReservationsOn(t.id) :
        WindowsOverlap(Minutes(c), Minutes(r.time), settings.turnoverMinutes)

TablesOf(slot) == {slot.availableTables[k] : k \in 1..Len(slot.availableTables)}

\* C1: in the returned sequence no slot lists a table that has a supplied
\* reservation whose occupancy window [r.time, r.time + turnover) overlaps
\* the slot's window [s.time, s.time + turnover).
NoProposedConflict ==
    pc = "returned" =>
        \A i \in 1..Len(result) : \A t \in TablesOf(result[i]) :
            ~Blocked(t, result[i].time)

\* a returned slot lists a table that has a reservation elsewhere in the
\* evening, and that table is missing from another returned slot
NoProposedConflictWitness ==
    /\ pc = "returned"
    /\ \E i, j \in 1..Len(result) : \E t \in TablesOf(result[i]) :
          /\ ReservationsOn(t.id) # {}
          /\ t \notin TablesOf(result[j])

\* the tables of the input, in input order, that are eligible for the party
\* and not blocked at wall-clock time c
ExpectedFree(c) ==
    LET ok(t) == t.capacity >= covers /\ t.isReady /\ ~Blocked(t, c)
    IN  SelectSeq(tables, ok)

SlotsAt(c) == {i \in 1..Len(result) : result[i].time = c}

\* C2: a candidate start time has a slot in the result iff some eligible
\* table is free of conflicts then, and the slot lists exactly the eligible
\* conflict-free tables in the order of the input tables sequence.
SlotIffFreeTable ==
    pc = "returned" =>
        \A n \in 1..Len(candidates) :
            LET c == candidates[n] IN
            /\ (SlotsAt(c) # {}) <=> (ExpectedFree(c) # <<>>)
            /\ \A i \in SlotsAt(c) : result[i].availableTables = ExpectedFree(c)

\* a call with two eligible tables given in the order 2, 1 returns one slot
\* that lists both, one that lists only one, and drops a candidate
SlotIffFreeTableWitness ==
    /\ pc = "returned"
    /\ Len(tables) = 2 /\ tables[1].id = 2
    /\ \E i, j \in 1..Len(result) :
          /\ Len(result[i].availableTables) = 2
          /\ Len(result[j].availableTables) = 1
    /\ \E n \in 1..Len(candidates) : SlotsAt(candidates[n]) = {}

IsCandidate(c) == \E n \in 1..Len(candidates) : candidates[n] = c

SlotOf(c) == result[CHOOSE i \in SlotsAt(c) : TRUE]

\* table t is eligible and all its supplied reservations are at 18:00
OnlySixOClock(t) ==
    /\ t.capacity >= covers /\ t.isReady
    /\ ReservationsOn(t.id) # {}
    /\ \A r \in ReservationsOn(t.id) : r.time = <<18, 0>>

RowsForDate ==
    {specialOpeningHours[i] :
        i \in {k \in 1..Len(specialOpeningHours) :
                  specialOpeningHours[k].date = dateString(date)}}

\* the English weekday of a day number (day 0 is Thursday 1970-01-01)
EnglishWeekday(n) ==
    CASE n % 7 = 0 -> "thursday" [] n % 7 = 1 -> "friday"
      [] n % 7 = 2 -> "saturday" [] n % 7 = 3 -> "sunday"
      [] n % 7 = 4 -> "monday"   [] n % 7 = 5 -> "tuesday"
      [] OTHER -> "wednesday"

\* the weekday name of the local calendar day the Date falls on
LocalWeekday == EnglishWeekday((date + tz) \div MinutesPerDay)

\* the weekly default has usable hours for the local weekday
DefaultIsOpen ==
    /\ LocalWeekday \in DOMAIN settings.openingHours
    /\ settings.openingHours[LocalWeekday] = Evening

SomeTableEligible ==
    \E k \in 1..Len(tables) : tables[k].capacity >= covers /\ tables[k].isReady

\* C4: when the date has a special-hours row with isOpen = false the call
\* returns the empty sequence, whatever the weekday default is.
SpecialClosedIsEmpty ==
    (pc # "call" /\ \E h \in RowsForDate : ~h.isOpen) =>
        (pc = "returned" /\ result = <<>>)

\* a closed row (that even carries both times) on a day whose weekday
\* default is open and for which a table is eligible
SpecialClosedIsEmptyWitness ==
    /\ pc = "returned"
    /\ \E h \in RowsForDate :
          ~h.isOpen /\ h.openTime = <<17, 30>> /\ h.closeTime = <<18, 30>>
    /\ DefaultIsOpen /\ SomeTableEligible

\* C5: when the date has a special-hours row with isOpen = true but without
\* an open or a close time, the call returns the empty sequence: no error
\* and no fall-back to the weekday default.
SpecialWithoutTimesIsEmpty ==
    (pc # "call" /\ \E h \in RowsForDate :
                       h.isOpen /\ (Falsy(h.openTime) \/ Falsy(h.closeTime))) =>
        (pc = "returned" /\ result = <<>>)

\* an open row that lacks its close time only, on a day whose weekday
\* default is open
SpecialWithoutTimesIsEmptyWitness ==
    /\ pc = "returned"
    /\ \E h \in RowsForDate :
          h.isOpen /\ h.openTime = <<17, 30>> /\ Falsy(h.closeTime)
    /\ DefaultIsOpen /\ SomeTableEligible

HHMM(x) == <<x \div 60, x % 60>>

\* open, open + 15, ... strictly before close, as "HH:MM" values
ExpectedCandidates(open, close) ==
    LET n == IF Minutes(close) > Minutes(open)
             THEN (Minutes(close) - Minutes(open) + 14) \div 15
             ELSE 0
    IN  [k \in 1..n |-> HHMM(Minutes(open) + 15 * (k - 1))]

\* C6: when the date's special-hours row is open and has both times, the
\* candidate slots are those of the row's openTime/closeTime, whatever the
\* weekday default holds (nothing, or other hours).
SpecialHoursReplaceDefault ==
    \A h \in RowsForDate :
        (h.isOpen /\ ~Falsy(h.openTime) /\ ~Falsy(h.closeTime)
            /\ SomeTableEligible /\ pc = "returned") =>
        candidates = ExpectedCandidates(h.openTime, h.closeTime)

\* the row 17:30-18:30 was used on a day whose weekday default is 17:00-19:15
SpecialHoursReplaceDefaultWitness ==
    /\ pc = "returned"
    /\ \E h \in RowsForDate : h.isOpen /\ ~Falsy(h.openTime) /\ ~Falsy(h.closeTime)
    /\ DefaultIsOpen
    /\ Len(candidates) = 4

\* C7: with no special-hours row for the date, a weekly mapping without an
\* entry for the date's lowercase English weekday name, or whose entry has
\* no open time, gives the empty sequence.
NoDefaultIsEmpty ==
    (/\ pc # "call"
     /\ RowsForDate = {}
     /\ \/ LocalWeekday \notin DOMAIN settings.openingHours
        \/ Falsy(settings.openingHours[LocalWeekday].open)) =>
        (pc = "returned" /\ result = <<>>)

\* no row, no entry for the local weekday although the days around it are
\* configured, and the UTC date of the Date is another day than the local one
NoDefaultIsEmptyWitness ==
    /\ pc = "returned"
    /\ RowsForDate = {}
    /\ LocalWeekday \notin DOMAIN settings.openingHours
    /\ DOMAIN settings.openingHours # {}
    /\ dateString(date) # (date + tz) \div MinutesPerDay
    /\ SomeTableEligible

\* C8: every table listed in a returned slot has capacity >= covers and is
\* ready, so no slot is made of tables that only together seat the party;
\* with no eligible table the result is empty.
OnlyEligibleTables ==
    pc = "returned" =>
        /\ \A i \in 1..Len(result) : \A t \in TablesOf(result[i]) :
              t.capacity >= covers /\ t.isReady
        /\ ~SomeTableEligible => result = <<>>

\* slots were returned although one of the tables is large enough but not
\* ready
OnlyEligibleTablesWitness ==
    /\ pc = "returned"
    /\ result # <<>>
    /\ \E k \in 1..Len(tables) : tables[k].capacity >= covers /\ ~tables[k].isReady

\* the hours in use, when the day is open and both times are "HH:MM"
HoursInUse ==
    LET hours == effectiveOpeningHours(date, settings, specialOpeningHours)
    IN  IF isClosed(hours) \/ Falsy(hours[1].close) THEN <<>> ELSE hours

\* C9: the candidate start times are exactly open + 15k minutes strictly
\* before close: open comes first, close is never a candidate, every slot
\* of the result is at a candidate, and 17:00 to 22:00 gives 20 candidates
\* ending with 21:45.
CandidatesEveryQuarter ==
    (pc = "returned" /\ HoursInUse # <<>> /\ SomeTableEligible) =>
        LET open == HoursInUse[1].open
            close == HoursInUse[1].close
        IN  /\ candidates = ExpectedCandidates(open, close)
            /\ Minutes(open) < Minutes(close) => candidates[1] = open
            /\ ~IsCandidate(close)
            /\ \A i \in 1..Len(result) : IsCandidate(result[i].time)
            /\ (open = <<17, 0>> /\ close = <<22, 0>>) =>
                  Len(candidates) = 20 /\ candidates[20] = <<21, 45>>

\* the evening 17:00-22:00 was enumerated and some candidate got no slot
CandidatesEveryQuarterWitness ==
    /\ pc = "returned"
    /\ HoursInUse = <<[open |-> <<17, 0>>, close |-> <<22, 0>>]>>
    /\ Len(candidates) = 20
    /\ 0 < Len(result) /\ Len(result) < 20

\* C10: the returned slots are in strictly increasing order of start time,
\* so no start time occurs twice.
SlotsChronological ==
    pc = "returned" =>
        \A i, j \in 1..Len(result) :
            i < j => Minutes(result[i].time) < Minutes(result[j].time)

\* a result of at least three slots with a gap between two neighbours
SlotsChronologicalWitness ==
    /\ pc = "returned"
    /\ Len(result) >= 3
    /\ \E i \in 1..(Len(result) - 1) :
          Minutes(result[i + 1].time) > Minutes(result[i].time) + 15

-----------------------------------------------------------------------------
(* Termination of the enumeration loop *)

InitLoop == LocalsInit /\ OutsideInit /\ (InitHours \/ InitScenarios)

\* a call that has started runs to its end: the engine is synchronous
SpecLoop == InitLoop /\ [][Next]_vars /\ WF_vars(Next)

\* the hours in use have close <= open
ClosedRange ==
    /\ HoursInUse # <<>>
    /\ Minutes(HoursInUse[1].close) <= Minutes(HoursInUse[1].open)

\* C11: with close <= open the loop generates no candidate and the result is
\* empty; in every case the loop is left after at most (close - open) / 15
\* rounded-up steps and the call returns.
LoopTerminates ==
    /\ [](ClosedRange =>
            /\ candidates = <<>>
            /\ pc = "returned" => result = <<>>)
    /\ [](HoursInUse # <<>> =>
            Len(candidates) <=
                Len(ExpectedCandidates(HoursInUse[1].open, HoursInUse[1].close)))
    /\ (pc = "loop") ~> (pc = "returned")

\* the loop was entered with close before open and the call has returned
LoopTerminatesWitness ==
    /\ pc = "returned"
    /\ ClosedRange /\ SomeTableEligible
    /\ Minutes(HoursInUse[1].close) < Minutes(HoursInUse[1].open)
    /\ currentTime # 0

-----------------------------------------------------------------------------
(* The scenarios and the behaviours the specification records *)

ScenarioBase ==
    /\ covers = 2
    /\ settings = [turnoverMinutes |-> 90,
                   openingHours |-> [day \in {"monday"} |-> ScenarioHours]]
    /\ tables = <<[id |-> 1, capacity |-> 4, isReady |-> TRUE]>>
    /\ specialOpeningHours = <<>>
    /\ LocalWeekday = "monday"

\* 17:00, 17:15, ... 18:45, each listing the one table
EightSlots ==
    [k \in 1..8 |-> [time |-> HHMM(17 * 60 + 15 * (k - 1)),
                     availableTables |-> tables]]

\* C12 (scenario A) as stated: turnover 90, Monday 17:00-19:00, one ready
\* table of capacity 4, no reservation, a party of two: slots 17:00, 17:15,
\* ... 18:45, nine in all, each listing the table.
ScenarioANineSlots ==
    (pc = "returned" /\ ScenarioBase /\ reservations = <<>>) =>
        /\ Len(result) = 9
        /\ result[1].time = <<17, 0>>
        /\ result[Len(result)].time = <<18, 45>>
        /\ \A i \in 1..Len(result) : result[i].availableTables = tables

\* C12 (scenario A) as amended: the slots are 17:00, 17:15, ... 18:45, which
\* are eight, each listing the table.
ScenarioA ==
    (pc = "returned" /\ ScenarioBase /\ reservations = <<>>) =>
        result = EightSlots

ScenarioAWitness ==
    /\ pc = "returned" /\ ScenarioBase /\ reservations = <<>>
    /\ Len(result) = 8 /\ tz # 0

\* C13 (scenario B): scenario A with a reservation on the table at 17:30:
\* the result holds exactly the candidates of 17:00 ... 18:45 whose window
\* [t, t + 90) does not overlap [17:30, 19:00); the others are absent.
ScenarioB ==
    (/\ pc = "returned" /\ ScenarioBase
     /\ Len(reservations) = 1
     /\ reservations[1].tableId = 1 /\ reservations[1].time = <<17, 30>>) =>
        LET clear(slot) ==
                ~WindowsOverlap(Minutes(slot.time), 17 * 60 + 30, 90)
        IN  /\ result = SelectSeq(EightSlots, clear)
            /\ \A k \in 1..8 : ~clear(EightSlots[k]) => SlotsAt(EightSlots[k].time) = {}

ScenarioBWitness ==
    /\ pc = "returned" /\ ScenarioBase
    /\ Len(reservations) = 1 /\ reservations[1].time = <<17, 30>>
    /\ reservations[1].date = 4
    /\ Len(candidates) = 8

\* C15: no step of a call changes an argument: date, party size, settings,
\* reservations, tables and special hours keep contents and order.
InputsUnchanged ==
    [][/\ date' = date
       /\ covers' = covers
       /\ settings' = settings
       /\ reservations' = reservations
       /\ tables' = tables
       /\ specialOpeningHours' = specialOpeningHours]_vars

\* a call that built its opening and closing Dates from the argument and
\* returned slots; the argument is still the Date it was given
InputsUnchangedWitness ==
    /\ pc = "returned"
    /\ result # <<>>
    /\ currentTime # date /\ closingTime # date
    /\ \E local \in LocalDateInputs : date = DateOf(local, tz)

\* no time string of the settings or the special hours is the empty string
TimesWellFormed ==
    /\ \A day \in DOMAIN settings.openingHours :
          /\ settings.openingHours[day].open # EmptyString
          /\ settings.openingHours[day].close # EmptyString
    /\ \A i \in 1..Len(specialOpeningHours) :
          /\ specialOpeningHours[i].openTime # EmptyString
          /\ specialOpeningHours[i].closeTime # EmptyString

\* C16: when every time string that is present is well-formed, the call
\* raises no error, also for a weekday entry with an open time and no close.
NeverThrows == TimesWellFormed => pc # "thrown"

\* the local calendar day the Date falls on
IntendedDay == (date + tz) \div MinutesPerDay

\* C17: for a Date at local midnight the special-hours rows the call
\* consults are those of the local calendar day, under every UTC offset.
ConsultsRowOfLocalDay ==
    (pc # "call" /\ (date + tz) % MinutesPerDay = 0) =>
        RowsForDate =
            {specialOpeningHours[i] :
                i \in {k \in 1..Len(specialOpeningHours) :
                          specialOpeningHours[k].date = IntendedDay}}

\* C19: a candidate is offered although its turnover window passes the
\* closing time: with turnover 90 and hours 17:00-19:00 the slot 18:45 is in
\* the result whenever an eligible table is free of conflicts at 18:45.
LastSeatingOffered ==
    (pc = "returned" /\ HoursInUse # <<>>) =>
        /\ \A n \in 1..Len(candidates) :
              (/\ Minutes(candidates[n]) + settings.turnoverMinutes
                      > Minutes(HoursInUse[1].close)
               /\ ExpectedFree(candidates[n]) # <<>>) =>
                  SlotsAt(candidates[n]) # {}
        /\ (/\ settings.turnoverMinutes = 90
            /\ HoursInUse[1] = ScenarioHours
            /\ ExpectedFree(<<18, 45>>) # <<>>) =>
               SlotsAt(<<18, 45>>) # {}

LastSeatingOfferedWitness ==
    /\ pc = "returned"
    /\ settings.turnoverMinutes = 90
    /\ HoursInUse = <<ScenarioHours>>
    /\ SlotsAt(<<18, 45>>) # {}

\* the supplied reservations dated another day than the computation day
ForeignReservations ==
    {reservations[j] :
        j \in {k \in 1..Len(reservations) :
                  reservations[k].date \notin {IntendedDay, dateString(date)}}}

\* C20: a supplied reservation dated another day blocks its table all the
\* same: no returned slot whose window overlaps the reservation's time of
\* day lists the reservation's table.
ForeignDateStillBlocks ==
    pc = "returned" =>
        \A r \in ForeignReservations : \A i \in 1..Len(result) :
            WindowsOverlap(Minutes(result[i].time), Minutes(r.time),
                           settings.turnoverMinutes) =>
                \A t \in TablesOf(result[i]) : t.id # r.tableId

\* a reservation of the Monday after at 18:45 left only 17:00 and 17:15
ForeignDateStillBlocksWitness ==
    /\ pc = "returned"
    /\ \E r \in ForeignReservations : r.time = <<18, 45>> /\ r.tableId = 1
    /\ Len(candidates) = 8
    /\ Len(result) = 2

-----------------------------------------------------------------------------
(* Several calls in a row *)

MaxCalls == 3

\* the party sizes the caller asks for when it calls again
RecallCovers == {2, 5}

\* mutant: the array lives at module level and is kept from call to call
keptSlots(old) == old

\* line 33: `const availableSlots = []`, a new empty array in every call
freshSlots(old) == <<>>

\* the caller invokes the engine once more (the modal's effect, lines 87-92
\* of ReservationModal, runs again whenever one of its inputs changes): a
\* new activation with new locals; here the party size may differ
Recall ==
    /\ pc = "returned"
    /\ Len(earlier) < MaxCalls - 1
    /\ earlier' = Append(earlier, [covers |-> covers, result |-> result])
    /\ covers' \in RecallCovers
    /\ pc' = "call"
    /\ availableSlots' = freshSlots(availableSlots)
    /\ eligibleTables' = <<>>
    /\ closingTime' = 0
    /\ currentTime' = 0
    /\ candidates' = <<>>
    /\ result' = <<>>
    /\ UNCHANGED <<tz, date, settings, reservations, tables, specialOpeningHours>>
    /\ UNCHANGED <<store, sessions, panel>>

InitCalls == LocalsInit /\ OutsideInit /\ InitScenarios

NextCalls == Begin \/ LoopStep \/ Return \/ Recall

SpecCalls == InitCalls /\ [][NextCalls]_vars

\* C14: a call returns the same slot sequence as every earlier call that
\* had the same arguments, whatever calls were made in between.
SameInputsSameResult ==
    pc = "returned" =>
        \A i \in 1..Len(earlier) :
            earlier[i].covers = covers => earlier[i].result = result

\* the third call repeats the arguments of the first, after a call for a
\* party the table cannot seat, and returns slots
SameInputsSameResultWitness ==
    /\ pc = "returned"
    /\ Len(earlier) = 2
    /\ earlier[1].covers = covers /\ earlier[2].covers # covers
    /\ result # <<>>

-----------------------------------------------------------------------------
(* Booking sessions: reservation modals working against the store *)

\* the engine as a function of its arguments: the loop of lines 71-104
RECURSIVE enumerateSlots(_, _, _, _, _, _, _)
enumerateSlots(d, ct, closing, elig, rsv, turnoverMinutes, slots) ==
    IF DateLess(ct, closing)
    THEN enumerateSlots(d, nextTime(ct), closing, elig, rsv, turnoverMinutes,
                        pushSlot(slots, ct,
                                 availableTablesForSlot(d, ct, elig, rsv,
                                                        turnoverMinutes)))
    ELSE slots

\* lines 25-108 as one evaluation; threw: the TypeError of line 61
calculateAvailableSlots(d, cv, st, rsv, tbls, rows) ==
    LET hours == effectiveOpeningHours(d, st, rows)
        elig == filterEligible(tbls, cv)
    IN  IF isClosed(hours) \/ Len(elig) = 0
        THEN [threw |-> FALSE, slots |-> <<>>]
        ELSE IF hours[1].close = Absent
        THEN [threw |-> TRUE, slots |-> <<>>]
        ELSE [threw |-> FALSE,
              slots |-> enumerateSlots(d, parseOnDate(d, hours[1].open),
                                       parseOnDate(d, hours[1].close),
                                       elig, rsv, st.turnoverMinutes, <<>>)]

\* .order('time', {ascending: true}) of getReservations: insertion by time
RECURSIVE orderByTime(_)
orderByTime(rows) ==
    IF rows = <<>> THEN <<>>
    ELSE LET rest == orderByTime(Tail(rows))
             earlierRows == {i \in 1..Len(rest) :
                                Minutes(rest[i].time) < Minutes(Head(rows).time)}
             n == Cardinality(earlierRows)
         IN  SubSeq(rest, 1, n) \o <<Head(rows)>> \o SubSeq(rest, n + 1, Len(rest))

\* api.getReservations({date}): the stored rows of that date, by time
getReservations(rows, day) ==
    LET sameDate(r) == r.date = day IN orderByTime(SelectSeq(rows, sameDate))

\* api.createReservation: a plain insert, nothing is compared with the rows
\* already stored
createReservation(rows, new) == Append(rows, new)

Sessions == {1, 2}
SessionDays == {4, 5}

BookingTables == <<[id |-> 1, capacity |-> 4, isReady |-> TRUE],
                   [id |-> 2, capacity |-> 2, isReady |-> TRUE]>>

\* the modal's state when it opens for a new reservation (lines 15-42):
\* step 0 stands for the loading screen shown until the first fetch is back
NewModal(day) ==
    [step |-> 0, date |-> day, time |-> EmptyString, tableId |-> 0,
     reservationsForDate |-> <<>>, availableTimeSlots |-> <<>>,
     availableTablesForSlot |-> <<>>]

InitBooking ==
    /\ LocalsInit
    /\ tz = 0
    /\ date = DateOf(<<4, 0>>, 0)
    /\ covers = 2
    /\ settings = [turnoverMinutes |-> 60,
                   openingHours |-> OpeningHoursOf(<<Neighbours>>, TRUE)]
    /\ reservations = <<>>
    /\ tables = BookingTables
    /\ specialOpeningHours = <<>>
    /\ earlier = <<>>
    /\ PanelIdle
    /\ store \in {<<>>, <<[tableId |-> 1, date |-> 4, time |-> <<17, 0>>]>>}
    /\ sessions \in [Sessions -> {NewModal(day) : day \in SessionDays}]

engine == <<inputs, locals, pc, result, earlier>>

\* lines 44-53 and 87-92: the date's reservations arrive and the slots are
\* computed from them, for a Date at local midnight of the form's date
FetchReservations(s) ==
    /\ sessions[s].step = 0
    /\ LET fetched == getReservations(store, sessions[s].date)
           slots == calculateAvailableSlots(DateOf(<<sessions[s].date, 0>>, tz),
                                            covers, settings, fetched, tables,
                                            specialOpeningHours).slots
       IN  sessions' = [sessions EXCEPT ![s].reservationsForDate = fetched,
                                        ![s].availableTimeSlots = slots,
                                        ![s].step = 1]
    /\ UNCHANGED <<engine, store, panel>>

\* lines 107-111
handleTimeSelect(s) ==
    /\ sessions[s].step = 1
    /\ \E i \in 1..Len(sessions[s].availableTimeSlots) :
          LET slot == sessions[s].availableTimeSlots[i]
          IN  sessions' = [sessions EXCEPT ![s].time = slot.time,
                                           ![s].availableTablesForSlot =
                                                slot.availableTables,
                                           ![s].step = 2]
    /\ UNCHANGED <<engine, store, panel>>

\* lines 113-116
handleTableSelect(s) ==
    /\ sessions[s].step = 2
    /\ \E i \in 1..Len(sessions[s].availableTablesForSlot) :
          sessions' = [sessions EXCEPT
                          ![s].tableId = sessions[s].availableTablesForSlot[i].id,
                          ![s].step = 3]
    /\ UNCHANGED <<engine, store, panel>>

\* lines 130-177 with name and contact filled in: the table must be chosen,
\* known and large enough; then the reservation is inserted and the modal
\* closes (step 4)
handleSubmit(s) ==
    /\ sessions[s].step = 3
    /\ LET chosen == {k \in 1..Len(tables) : tables[k].id = sessions[s].tableId}
       IN  IF \/ sessions[s].tableId = 0
              \/ chosen = {}
              \/ \E k \in chosen : covers > tables[k].capacity
           THEN UNCHANGED <<store, sessions>>
           ELSE /\ store' = createReservation(store,
                                [tableId |-> sessions[s].tableId,
                                 date |-> sessions[s].date,
                                 time |-> sessions[s].time])
                /\ sessions' = [sessions EXCEPT ![s].step = 4]
    /\ UNCHANGED <<engine, panel>>

NextBooking ==
    \E s \in Sessions :
        \/ FetchReservations(s)
        \/ handleTimeSelect(s)
        \/ handleTableSelect(s)
        \/ handleSubmit(s)

SpecBooking == InitBooking /\ [][NextBooking]_vars

\* C18: the store never holds two reservations of one table and date whose
\* occupancy windows [start, start + turnover) overlap.
NoDoubleBooking ==
    \A i, j \in 1..Len(store) :
        (i < j /\ store[i].tableId = store[j].tableId
               /\ store[i].date = store[j].date) =>
            ~WindowsOverlap(Minutes(store[i].time), Minutes(store[j].time),
                            settings.turnoverMinutes)

-----------------------------------------------------------------------------
(* App: the session gate (App.tsx) *)

MaxAuthEvents == 2

\* constants.ts VIEWS
VIEWS == {"dashboard", "calendar", "reservations", "layout", "settings",
          "financials"}

Users == {"owner", "staff"}

\* App.tsx lines 74-91: the component shown for a view
renderView(view) == IF view \in VIEWS THEN view ELSE "dashboard"

\* mutant: the panel is rendered whatever the session
AppUngated(s, view) == renderView(view)

\* App.tsx lines 93-136: what App renders, the login page or the panel
\* with the active view in its main area
App(s, view) == IF s = Null THEN "Auth" ELSE renderView(view)

rendered == App(session, activeView)

\* everything but App's own state and the auth client
appFrame == <<inputs, locals, pc, result, earlier, store, sessions,
              dashboard, modal, pending, list>>

\* App is mounted: session null, dashboard view, getSession() called and
\* the listener subscribed (lines 52-68); the client may hold a session
\* from an earlier visit
InitApp ==
    /\ LocalsInit
    /\ tz = 0 /\ date = 0 /\ covers = 2
    /\ settings = [turnoverMinutes |-> 60, openingHours |-> OpeningHoursOf(<<>>, FALSE)]
    /\ reservations = <<>> /\ tables = <<>> /\ specialOpeningHours = <<>>
    /\ earlier = <<>> /\ store = <<>> /\ sessions = <<>>
    /\ session = Null
    /\ activeView = "dashboard"
    /\ authSession \in {Null} \cup Users
    /\ authEvents = <<[from |-> "getSession", session |-> Null]>>
    /\ dashboard = DashboardIdle /\ modal = ModalClosed
    /\ pending = <<>> /\ list = ListIdle

RemoveAt(seq, i) == SubSeq(seq, 1, i - 1) \o SubSeq(seq, i + 1, Len(seq))

\* lines 57-59: getSession() resolves with the client's session and the
\* callback stores it
GetSessionResolves ==
    /\ \E i \in 1..Len(authEvents) :
          /\ authEvents[i].from = "getSession"
          /\ authEvents' = RemoveAt(authEvents, i)
    /\ session' = authSession
    /\ UNCHANGED <<activeView, authSession, appFrame>>

\* lines 62-64: the listener receives the oldest undelivered change
OnAuthStateChange ==
    /\ \E i \in 1..Len(authEvents) :
          /\ authEvents[i].from = "onAuthStateChange"
          /\ \A j \in 1..(i - 1) : authEvents[j].from # "onAuthStateChange"
          /\ session' = authEvents[i].session
          /\ authEvents' = RemoveAt(authEvents, i)
    /\ UNCHANGED <<activeView, authSession, appFrame>>

\* Auth.tsx lines 15-30: the login page, shown while session is null,
\* signs in; the client announces the new session
handleLogin ==
    /\ rendered = "Auth"
    /\ Len(authEvents) < MaxAuthEvents
    /\ \E u \in Users :
          /\ authSession' = u
          /\ authEvents' = Append(authEvents, [from |-> "onAuthStateChange", session |-> u])
    /\ UNCHANGED <<session, activeView, appFrame>>

\* lines 70-72: the Sign Out button of the sidebar
handleSignOut ==
    /\ rendered # "Auth"
    /\ Len(authEvents) < MaxAuthEvents
    /\ authSession' = Null
    /\ authEvents' = Append(authEvents, [from |-> "onAuthStateChange", session |-> Null])
    /\ UNCHANGED <<session, activeView, appFrame>>

\* the client loses the session on its own (expiry, sign-out in another tab)
SessionEnds ==
    /\ authSession # Null
    /\ Len(authEvents) < MaxAuthEvents
    /\ authSession' = Null
    /\ authEvents' = Append(authEvents, [from |-> "onAuthStateChange", session |-> Null])
    /\ UNCHANGED <<session, activeView, appFrame>>

\* line 107: a sidebar button, there only while the panel is rendered
setActiveView ==
    /\ rendered # "Auth"
    /\ \E view \in VIEWS : activeView' = view
    /\ UNCHANGED <<session, authSession, authEvents, appFrame>>

NextApp ==
    \/ GetSessionResolves
    \/ OnAuthStateChange
    \/ handleLogin
    \/ handleSignOut
    \/ SessionEnds
    \/ setActiveView

SpecApp == InitApp /\ [][NextApp]_vars

\* C21: an admin view is rendered only while the session is non-null, and
\* while the session is null (also after a delivered sign-out) only the
\* login page is rendered.
Gatekeeper ==
    /\ rendered \in VIEWS => session # Null
    /\ session = Null => rendered = "Auth"

\* a sign-out was delivered while another view than the first was active:
\* the view is still remembered, the login page is what is shown
GatekeeperWitness ==
    /\ session = Null
    /\ authSession = Null
    /\ authEvents = <<>>
    /\ activeView = "settings"
    /\ rendered = "Auth"

-----------------------------------------------------------------------------
(* Dashboard: the day's figures and the staff briefing *)

MaxDayRows == 2

\* constants.ts ReservationStatus
ReservationStatus == {"PENDING", "CONFIRMED", "CANCELLED", "NO_SHOW", "PAID"}

DayCovers == {2, 3}

\* the reservations the store holds for today: row i is on table i at
\* 17:00 + 30 (i - 1) minutes
DashboardStores ==
    UNION {{[i \in 1..n |->
                [id |-> i, tableId |-> i, date |-> 4, time |-> <<17, 30 * (i - 1)>>,
                 status |-> st[i], covers |-> cv[i]]] :
               st \in [1..n -> ReservationStatus], cv \in [1..n -> DayCovers]} :
           n \in 0..MaxDayRows}

NotConfigured == "Gemini API key is not configured. Briefing cannot be generated."
ErrorGenerating == "There was an error generating the briefing. Please check the console for details."

\* mutant: the model call is awaited outside any try block
generateStaffBriefingNoCatch(apiKey, outcome) ==
    IF ~apiKey THEN [state |-> "fulfilled", value |-> NotConfigured]
    ELSE IF outcome = "responds"
    THEN [state |-> "fulfilled", value |-> "response.text"]
    ELSE [state |-> "rejected", value |-> ""]

\* geminiService.ts lines 22-57: how the promise settles, given whether the
\* key is set and how ai.models.generateContent ends
generateStaffBriefing(apiKey, outcome) ==
    IF ~apiKey THEN [state |-> "fulfilled", value |-> NotConfigured]
    ELSE IF outcome = "responds"
    THEN [state |-> "fulfilled", value |-> "response.text"]
    ELSE [state |-> "fulfilled", value |-> ErrorGenerating]

RECURSIVE sumCovers(_)
sumCovers(rows) == IF rows = <<>> THEN 0 ELSE Head(rows).covers + sumCovers(Tail(rows))

\* (a / n).toFixed(1) for integers a >= 0 and n >= 0, in tenths; 0 / 0 is
\* NaN and NaN.toFixed(1) is "NaN"
toFixed1(a, n) ==
    IF n = 0 THEN [isNaN |-> a = 0, isFinite |-> FALSE, tenths |-> 0]
    ELSE [isNaN |-> FALSE, isFinite |-> TRUE, tenths |-> (20 * a + n) \div (2 * n)]

\* Dashboard lines 57-60
avgCovers(rows) ==
    LET isConfirmed(r) == r.status = "CONFIRMED"
        totalReservations == Len(rows)
        confirmedReservations == SelectSeq(rows, isConfirmed)
        totalCovers == sumCovers(confirmedReservations)
    IN  IF totalReservations > 0
        THEN toFixed1(totalCovers, Len(confirmedReservations))
        ELSE [isNaN |-> FALSE, isFinite |-> TRUE, tenths |-> 0]

dashboardFrame == <<inputs, locals, pc, result, earlier, store, sessions,
                    session, activeView, authSession, authEvents,
                    modal, pending, list>>

\* the Dashboard is mounted by a signed-in App and has started to fetch
\* today's reservations (lines 44-46)
InitDashboard ==
    /\ LocalsInit
    /\ tz = 0 /\ date = 0 /\ covers = 2
    /\ settings = [turnoverMinutes |-> 60, openingHours |-> OpeningHoursOf(<<>>, FALSE)]
    /\ reservations = <<>> /\ tables = <<>> /\ specialOpeningHours = <<>>
    /\ earlier = <<>> /\ sessions = <<>>
    /\ store \in DashboardStores
    /\ session \in Users /\ authSession = session
    /\ activeView = "dashboard" /\ authEvents = <<>>
    /\ \E key \in BOOLEAN :
          dashboard = [DashboardIdle EXCEPT !.apiKey = key, !.fetch = "pending"]
    /\ modal = ModalClosed /\ pending = <<>> /\ list = ListIdle

\* lines 35-36: the reservations of today arrive
FetchTodaysArrives ==
    /\ dashboard.fetch = "pending"
    /\ dashboard' = [dashboard EXCEPT !.fetch = "done",
                                      !.reservations = getReservations(store, 4)]
    /\ UNCHANGED dashboardFrame

\* lines 37-41: the request fails
FetchTodaysFails ==
    /\ dashboard.fetch = "pending"
    /\ dashboard' = [dashboard EXCEPT !.fetch = "failed", !.error = TRUE]
    /\ UNCHANGED dashboardFrame

\* lines 48-51 up to the await; the button is disabled while loading (line 96)
handleGenerateBriefing ==
    /\ ~dashboard.isLoadingBriefing
    /\ dashboard' = [dashboard EXCEPT !.isLoadingBriefing = TRUE,
                                      !.briefing = "",
                                      !.call = [state |-> "pending", value |-> ""]]
    /\ UNCHANGED dashboardFrame

\* the promise of generateStaffBriefing settles
BriefingSettles ==
    /\ dashboard.call.state = "pending"
    /\ \E outcome \in {"responds", "fails"} :
          dashboard' = [dashboard EXCEPT
                           !.call = generateStaffBriefing(dashboard.apiKey, outcome),
                           !.modelCall = IF dashboard.apiKey THEN outcome ELSE "none"]
    /\ UNCHANGED dashboardFrame

\* lines 52-53: handleGenerateBriefing resumes after the await
BriefingResumes ==
    /\ dashboard.call.state = "fulfilled"
    /\ dashboard' = [dashboard EXCEPT !.briefing = dashboard.call.value,
                                      !.isLoadingBriefing = FALSE,
                                      !.call = [state |-> "none", value |-> ""]]
    /\ UNCHANGED dashboardFrame

NextDashboard ==
    \/ FetchTodaysArrives
    \/ FetchTodaysFails
    \/ handleGenerateBriefing
    \/ BriefingSettles
    \/ BriefingResumes

\* the request to the model ends, one way or the other, and a settled
\* promise resumes its awaiter
SpecDashboard ==
    /\ InitDashboard /\ [][NextDashboard]_vars
    /\ WF_vars(BriefingSettles) /\ WF_vars(BriefingResumes)

\* C22: generateStaffBriefing never rejects; without a key it resolves to
\* the not-configured message and after a failed model call to the error
\* message; after every click isLoadingBriefing returns to false.
BriefingNeverRejects ==
    /\ [](dashboard.call.state # "rejected")
    /\ [](dashboard.call.state = "fulfilled" =>
            /\ ~dashboard.apiKey => dashboard.call.value = NotConfigured
            /\ dashboard.call.value \in {NotConfigured, ErrorGenerating, "response.text"})
    /\ [](dashboard.call.state = "fulfilled" /\ dashboard.modelCall = "fails" =>
            dashboard.call.value = ErrorGenerating)
    /\ dashboard.isLoadingBriefing ~> ~dashboard.isLoadingBriefing

\* the model call failed, the error message is shown and the flag is back
BriefingNeverRejectsWitness ==
    /\ dashboard.apiKey /\ dashboard.modelCall = "fails"
    /\ dashboard.briefing = ErrorGenerating
    /\ ~dashboard.isLoadingBriefing
    /\ dashboard.call.state = "none"

\* C29: the average party size is a defined number: 0 without reservations,
\* else the confirmed covers divided by a non-zero count.
AverageDefined ==
    LET avg == avgCovers(dashboard.reservations)
    IN  /\ ~avg.isNaN /\ avg.isFinite
        /\ dashboard.reservations = <<>> => avg.tenths = 0

-----------------------------------------------------------------------------
(* ReservationModal, request by request *)

MaxDateChanges == 1

\* checkAmount null
NoAmount == -1

\* a row of the reservations table
ReservationRow(id, tableId, day, time, status) ==
    [id |-> id, tableId |-> tableId, date |-> day, time |-> time,
     status |-> status, covers |-> 2, customerName |-> "Ann",
     contact |-> "555", checkAmount |-> NoAmount]

\* what the store holds when the modal opens: a reservation on table 1 on
\* Monday at 17:00 in some status, and possibly a second one at 17:30
ModalStores ==
    {<<ReservationRow(1, 1, 4, <<17, 0>>, st)>> :
        st \in {"CONFIRMED", "CANCELLED", "NO_SHOW"}}
    \cup {<<ReservationRow(1, 1, 4, <<17, 0>>, st),
            ReservationRow(2, t, d, <<17, 30>>, "CONFIRMED")>> :
             st \in {"CONFIRMED", "CANCELLED"}, t \in {1, 2}, d \in {4, 5}}

ModalDays == {4, 5}

\* api.getReservations(filters), lines 159-185: the date filter, the status
\* filter unless it is ALL, ordered by time
getReservationsByStatus(rows, day, status) ==
    LET matches(r) == r.date = day /\ (status = "ALL" \/ r.status = status)
    IN  orderByTime(SelectSeq(rows, matches))

\* mutant: nothing is taken out
excludeNothing(rows, edited) == rows

\* line 48: reservation ? reservationsData.filter(r => r.id !== reservation.id)
\*                      : reservationsData
excludeEdited(rows, edited) ==
    LET other(r) == r.id # edited[1].id
    IN  IF edited = <<>> THEN rows ELSE SelectSeq(rows, other)

\* mutant: the modal asks for the confirmed reservations only
fetchReservationsForDateConfirmed(rows, day, edited) ==
    excludeEdited(getReservationsByStatus(rows, day, "CONFIRMED"), edited)

\* lines 44-49: what setReservationsForDate receives for a date
fetchReservationsForDate(rows, day, edited) ==
    excludeEdited(getReservations(rows, day), edited)

\* lines 16-26
NewFormData(initialDate) ==
    [customerName |-> "", contact |-> "", date |-> initialDate,
     time |-> EmptyString, covers |-> 2, tableId |-> 0, status |-> "CONFIRMED"]

\* line 72: setFormData({...reservation, ...})
EditFormData(r) ==
    [customerName |-> r.customerName, contact |-> r.contact, date |-> r.date,
     time |-> r.time, covers |-> r.covers, tableId |-> r.tableId,
     status |-> r.status]

\* the modal as it is mounted (lines 15-42): reservation is <<>> for a new
\* reservation or <<row>> for the one edited.  History: fetchedDate, the
\* date of the response stored last; lastUser and chosenDate, the last
\* action of the user and the date picked in it; changes counts date
\* picks; sent, the create and update requests issued
OpenModal(reservation, initialDate) ==
    [open |-> TRUE, reservation |-> reservation, currentStep |-> 1,
     formData |-> NewFormData(initialDate), loaded |-> FALSE,
     reservationsForDate |-> <<>>, availableTimeSlots |-> <<>>,
     availableTablesForSlot |-> <<>>, loading |-> TRUE,
     error |-> FALSE, validationErrors |-> {}, sent |-> <<>>,
     fetchedDate |-> -1, lastUser |-> "none", chosenDate |-> -1, changes |-> 0]

\* lines 87-92 as they leave availableTimeSlots after a render of state m
slotsEffect(m) ==
    IF ~m.loaded \/ Len(tables) = 0 \/ m.formData.covers = 0
    THEN m.availableTimeSlots
    ELSE calculateAvailableSlots(DateOf(<<m.formData.date, 0>>, tz),
                                 m.formData.covers, settings,
                                 m.reservationsForDate, tables,
                                 specialOpeningHours).slots

afterRender(m) == [m EXCEPT !.availableTimeSlots = slotsEffect(m)]

\* the requests in flight carry no order: they are kept sorted, and any of
\* them may be answered next
requestKey(q) ==
    4 * q.date + (IF q.kind = "initial" THEN 2 ELSE 0) + (IF q.awaited THEN 1 ELSE 0)

request(queue, q) ==
    LET n == Cardinality({i \in 1..Len(queue) : requestKey(queue[i]) <= requestKey(q)})
    IN  SubSeq(queue, 1, n) \o <<q>> \o SubSeq(queue, n + 1, Len(queue))

modalFrame == <<inputs, locals, pc, result, earlier, sessions,
                session, activeView, authSession, authEvents, dashboard, list>>

\* the calendar opens the modal for its date, for a new reservation or for
\* one of the date's reservations; the first effect has called
\* fetchInitialData (lines 55-85)
InitModal ==
    /\ LocalsInit
    /\ tz = 0 /\ date = DateOf(<<4, 0>>, 0) /\ covers = 2
    /\ settings = [turnoverMinutes |-> 60,
                   openingHours |-> OpeningHoursOf(<<Neighbours>>, TRUE)]
    /\ reservations = <<>> /\ tables = BookingTables /\ specialOpeningHours = <<>>
    /\ earlier = <<>> /\ sessions = <<>>
    /\ store \in ModalStores
    /\ session \in {"owner"} /\ authSession = session
    /\ activeView = "calendar" /\ authEvents = <<>>
    /\ dashboard = DashboardIdle /\ list = ListIdle
    /\ \E reservation \in {<<>>, <<store[1]>>} :
          modal = OpenModal(reservation, 4)
    /\ pending = <<[kind |-> "initial", date |-> 4, awaited |-> TRUE]>>

\* lines 60-76: the four lists arrive; when editing, the form is set from
\* the reservation and the step to 3; the reservations of the date this
\* run was started for are requested.  A changed formData.date makes the
\* effect run again (line 85)
InitialDataArrives ==
    \E i \in 1..Len(pending) :
        /\ pending[i].kind = "initial"
        /\ LET edit == modal.reservation # <<>>
               form == IF edit THEN EditFormData(modal.reservation[1])
                       ELSE modal.formData
               rerun == form.date # modal.formData.date
               issued == request(RemoveAt(pending, i),
                                 [pending[i] EXCEPT !.kind = "reservations"])
           IN  /\ modal' = afterRender(
                      [modal EXCEPT !.loaded = TRUE,
                                    !.formData = form,
                                    !.currentStep = IF edit THEN 3 ELSE @,
                                    !.loading = IF rerun THEN TRUE ELSE @])
               /\ pending' = IF rerun
                             THEN request(issued, [kind |-> "initial",
                                                   date |-> form.date,
                                                   awaited |-> TRUE])
                             ELSE issued
        /\ UNCHANGED <<modalFrame, store>>

\* lines 46-49 and 80-82: a response of getReservations arrives, whatever
\* was requested before or after it
ReservationsArrive ==
    \E i \in 1..Len(pending) :
        /\ pending[i].kind = "reservations"
        /\ modal' = afterRender(
               [modal EXCEPT
                   !.reservationsForDate =
                       fetchReservationsForDate(store, pending[i].date,
                                                modal.reservation),
                   !.fetchedDate = pending[i].date,
                   !.loading = IF pending[i].awaited THEN FALSE ELSE @])
        /\ pending' = RemoveAt(pending, i)
        /\ UNCHANGED <<modalFrame, store>>

\* step 1 is on screen (lines 270-278): the loading text replaces it only
\* for a new reservation
step1Shown ==
    /\ modal.open
    /\ modal.currentStep = 1 /\ ~(modal.loading /\ modal.reservation = <<>>)

\* lines 95-101, the date field: the form takes the date and loses time and
\* table, the date's reservations are requested, the step is 1; the effect
\* of lines 55-85 runs again for the new date
modalHandleFormChangeDate ==
    /\ step1Shown
    /\ modal.changes < MaxDateChanges
    /\ \E value \in ModalDays \ {modal.formData.date} :
          /\ modal' = afterRender(
                 [modal EXCEPT !.formData.date = value,
                               !.formData.time = EmptyString,
                               !.formData.tableId = 0,
                               !.currentStep = 1,
                               !.loading = TRUE,
                               !.lastUser = "date",
                               !.chosenDate = value,
                               !.changes = @ + 1])
          /\ pending' = request(
                 request(pending, [kind |-> "reservations", date |-> value,
                                   awaited |-> FALSE]),
                 [kind |-> "initial", date |-> value, awaited |-> TRUE])
    /\ UNCHANGED <<modalFrame, store>>

\* lines 107-111: one of the slot buttons, there when not loading (line 201)
modalHandleTimeSelect ==
    /\ step1Shown /\ ~modal.loading
    /\ \E i \in 1..Len(modal.availableTimeSlots) :
          LET slot == modal.availableTimeSlots[i]
          IN  modal' = afterRender(
                  [modal EXCEPT !.formData.time = slot.time,
                                !.availableTablesForSlot = slot.availableTables,
                                !.currentStep = 2,
                                !.lastUser = "time"])
    /\ UNCHANGED <<modalFrame, store, pending>>

\* lines 113-116: one of the table buttons of step 2
modalHandleTableSelect ==
    /\ modal.open
    /\ modal.currentStep = 2 /\ ~(modal.loading /\ modal.reservation = <<>>)
    /\ \E i \in 1..Len(modal.availableTablesForSlot) :
          modal' = afterRender(
              [modal EXCEPT !.formData.tableId = modal.availableTablesForSlot[i].id,
                            !.currentStep = 3,
                            !.lastUser = "table"])
    /\ UNCHANGED <<modalFrame, store, pending>>

\* lines 214 and 238: the back links of steps 2 and 3
modalSetCurrentStep ==
    /\ modal.open
    /\ modal.currentStep \in {2, 3} /\ ~(modal.loading /\ modal.reservation = <<>>)
    /\ modal' = afterRender(
           [modal EXCEPT !.currentStep = IF modal.currentStep = 2
                                         \/ modal.reservation # <<>>
                                         THEN 1 ELSE 2,
                         !.lastUser = "back"])
    /\ UNCHANGED <<modalFrame, store, pending>>

NextModal ==
    \/ InitialDataArrives
    \/ ReservationsArrive
    \/ modalHandleFormChangeDate
    \/ modalHandleTimeSelect
    \/ modalHandleTableSelect
    \/ modalSetCurrentStep

SpecModal == InitModal /\ [][NextModal]_vars

\* the stored reservations of a day other than the one being edited
OthersOn(day) ==
    {store[k] : k \in {j \in 1..Len(store) :
                          /\ store[j].date = day
                          /\ modal.reservation # <<>> =>
                                store[j].id # modal.reservation[1].id}}

TableIdsOf(slot) == {t.id : t \in TablesOf(slot)}

\* the slots on screen were computed from the reservations of the form's date
SlotsOfFormDate ==
    /\ modal.open /\ modal.loaded
    /\ modal.fetchedDate = modal.formData.date

\* the engine's answer for the form's date when every stored reservation of
\* that date (but the edited one) is taken as CONFIRMED
SlotsIfAllConfirmed ==
    LET other(r) == r \in OthersOn(modal.formData.date)
        rows == SelectSeq(getReservations(store, modal.formData.date), other)
        confirmed == [i \in 1..Len(rows) |-> [rows[i] EXCEPT !.status = "CONFIRMED"]]
    IN  calculateAvailableSlots(DateOf(<<modal.formData.date, 0>>, tz),
                                modal.formData.covers, settings, confirmed,
                                tables, specialOpeningHours).slots

\* C23: a stored reservation of the date blocks its table at every
\* overlapping slot whatever its status, and the slots offered are those
\* offered if every reservation of the date were CONFIRMED.
StatusDoesNotMatter ==
    SlotsOfFormDate =>
        /\ \A r \in OthersOn(modal.formData.date) :
              \A i \in 1..Len(modal.availableTimeSlots) :
                  WindowsOverlap(Minutes(modal.availableTimeSlots[i].time),
                                 Minutes(r.time), settings.turnoverMinutes)
                  => r.tableId \notin TableIdsOf(modal.availableTimeSlots[i])
        /\ modal.availableTimeSlots = SlotsIfAllConfirmed

\* a cancelled or no-show reservation of table 1 keeps it out of a slot
\* that is offered with the other table
StatusDoesNotMatterWitness ==
    /\ SlotsOfFormDate
    /\ \E r \in OthersOn(modal.formData.date) :
          /\ r.status \in {"CANCELLED", "NO_SHOW"}
          /\ \E i \in 1..Len(modal.availableTimeSlots) :
                /\ WindowsOverlap(Minutes(modal.availableTimeSlots[i].time),
                                  Minutes(r.time), settings.turnoverMinutes)
                /\ TableIdsOf(modal.availableTimeSlots[i]) = {2}

\* C24: once no request is in flight, reservationsForDate holds the
\* reservations of the form's current date (minus the edited one).
FetchedForCurrentDate ==
    (modal.open /\ pending = <<>>) =>
        modal.reservationsForDate =
            fetchReservationsForDate(store, modal.formData.date, modal.reservation)

\* C25: after the user picked a date, and until the next action of the
\* user, the form holds that date, no time and no table, and the step is 1.
DateChangeSticks ==
    (modal.open /\ modal.lastUser = "date") =>
        /\ modal.formData.date = modal.chosenDate
        /\ modal.formData.time = EmptyString
        /\ modal.formData.tableId = 0
        /\ modal.currentStep = 1

\* C26: while a reservation is edited it is never in the conflict set; the
\* set is the other reservations of the date fetched, and when that is the
\* reservation's own date its own slot lists its own table unless another
\* reservation of that table overlaps it.
EditedExcluded ==
    (modal.open /\ modal.reservation # <<>>) =>
        LET own == modal.reservation[1]
            rows == modal.reservationsForDate
        IN  /\ \A i \in 1..Len(rows) : rows[i].id # own.id
            /\ modal.fetchedDate # -1 =>
                  {rows[i] : i \in 1..Len(rows)} = OthersOn(modal.fetchedDate)
            /\ (SlotsOfFormDate /\ modal.formData.date = own.date) =>
                  ((\E i \in 1..Len(modal.availableTimeSlots) :
                        /\ modal.availableTimeSlots[i].time = own.time
                        /\ own.tableId \in TableIdsOf(modal.availableTimeSlots[i]))
                   <=> ~ \E r \in OthersOn(own.date) :
                            /\ r.tableId = own.tableId
                            /\ WindowsOverlap(Minutes(own.time), Minutes(r.time),
                                              settings.turnoverMinutes))

\* the edited reservation's slot is offered with its own table only, the
\* other table being taken by the second reservation of the day
EditedExcludedWitness ==
    /\ SlotsOfFormDate
    /\ modal.reservation # <<>>
    /\ modal.formData.date = modal.reservation[1].date
    /\ modal.currentStep = 3
    /\ OthersOn(modal.formData.date) # {}
    /\ \E i \in 1..Len(modal.availableTimeSlots) :
          /\ modal.availableTimeSlots[i].time = modal.reservation[1].time
          /\ TableIdsOf(modal.availableTimeSlots[i]) = {modal.reservation[1].tableId}

-----------------------------------------------------------------------------
(* ReservationModal: the details form and the save *)

\* what the user may type: a name, a contact, a party size (parseInt of the
\* field's text)
NameInputs == {"", " ", "Ann"}
ContactInputs == {"", "555"}
PartySizeInputs == {0 - 1, 0, 2, 5}
StatusInputs == {"CONFIRMED", "PAID"}

\* String.prototype.trim on the texts above
trim(text) == IF text = " " THEN "" ELSE text

\* lines 118-128: the fields with an error
validateDetails(form) ==
    (IF trim(form.customerName) = "" THEN {"customerName"} ELSE {})
    \cup (IF trim(form.contact) = "" THEN {"contact"} ELSE {})

\* api.updateReservation, lines 202-215: the columns named in updateData
\* are written, the others stay
updateReservation(rows, reservationId, updateData) ==
    [i \in 1..Len(rows) |->
        IF rows[i].id = reservationId
        THEN [f \in DOMAIN rows[i] |->
                 IF f \in DOMAIN updateData THEN updateData[f] ELSE rows[i][f]]
        ELSE rows[i]]

\* the row an insert of the payload leaves: the store gives the id, and
\* checkAmount, which the payload cannot carry (line 188), is null
insertedRow(rows, payload) ==
    [id |-> Len(rows) + 1, tableId |-> payload.tableId, date |-> payload.date,
     time |-> payload.time, status |-> payload.status, covers |-> payload.covers,
     customerName |-> payload.customerName, contact |-> payload.contact,
     checkAmount |-> NoAmount]

\* the modal once its first requests are answered: lists loaded, the
\* date's reservations stored, and when editing the form set and step 3
LoadedModal(reservation, initialDate) ==
    LET edit == reservation # <<>>
    IN  afterRender(
            [OpenModal(reservation, initialDate) EXCEPT
                !.loaded = TRUE,
                !.loading = FALSE,
                !.formData = IF edit THEN EditFormData(reservation[1]) ELSE @,
                !.currentStep = IF edit THEN 3 ELSE @,
                !.reservationsForDate =
                    fetchReservationsForDate(store, initialDate, reservation),
                !.fetchedDate = initialDate])

\* the edited reservation may sit on a table that was deleted since
DetailsStores ==
    {<<ReservationRow(1, t, 4, <<17, 0>>, "CONFIRMED")>> : t \in {1, 3}}

InitDetails ==
    /\ LocalsInit
    /\ tz = 0 /\ date = DateOf(<<4, 0>>, 0) /\ covers = 2
    /\ settings = [turnoverMinutes |-> 60,
                   openingHours |-> OpeningHoursOf(<<Neighbours>>, TRUE)]
    /\ reservations = <<>> /\ tables = BookingTables /\ specialOpeningHours = <<>>
    /\ earlier = <<>> /\ sessions = <<>>
    /\ store \in DetailsStores
    /\ session \in {"owner"} /\ authSession = session
    /\ activeView = "calendar" /\ authEvents = <<>>
    /\ dashboard = DashboardIdle /\ list = ListIdle
    /\ \E reservation \in {<<>>, <<store[1]>>} :
          modal = LoadedModal(reservation, 4)
    /\ pending = <<>>

\* lines 102-104, the party size field of step 1
modalHandleFormChangeCovers ==
    /\ step1Shown
    /\ \E value \in PartySizeInputs :
          modal' = afterRender([modal EXCEPT !.formData.covers = value,
                                             !.lastUser = "covers"])
    /\ UNCHANGED <<modalFrame, store, pending>>

\* lines 102-104, the name field of step 3
modalHandleFormChangeName ==
    /\ modal.open /\ modal.currentStep = 3
    /\ \E value \in NameInputs :
          modal' = afterRender([modal EXCEPT !.formData.customerName = value,
                                             !.lastUser = "customerName"])
    /\ UNCHANGED <<modalFrame, store, pending>>

\* lines 102-104, the contact field of step 3
modalHandleFormChangeContact ==
    /\ modal.open /\ modal.currentStep = 3
    /\ \E value \in ContactInputs :
          modal' = afterRender([modal EXCEPT !.formData.contact = value,
                                             !.lastUser = "contact"])
    /\ UNCHANGED <<modalFrame, store, pending>>

\* lines 102-104, the status select of step 3 (lines 254-258)
modalHandleFormChangeStatus ==
    /\ modal.open /\ modal.currentStep = 3
    /\ \E value \in StatusInputs :
          modal' = afterRender([modal EXCEPT !.formData.status = value,
                                             !.lastUser = "status"])
    /\ UNCHANGED <<modalFrame, store, pending>>

\* lines 154-164
submissionPayload(form) ==
    [customerName |-> form.customerName, contact |-> form.contact,
     date |-> form.date, time |-> form.time, covers |-> form.covers,
     tableId |-> form.tableId, status |-> form.status]

\* lines 130-177, the Save button of step 3: the checks in their order,
\* then the update or the insert, and the modal closes
modalHandleSubmit ==
    /\ modal.open /\ modal.currentStep = 3
    /\ LET form == modal.formData
           errors == validateDetails(form)
           selectedTable == {k \in 1..Len(tables) : tables[k].id = form.tableId}
           payload == submissionPayload(form)
       IN  IF errors # {}
           THEN /\ modal' = [modal EXCEPT !.error = FALSE,
                                          !.validationErrors = errors,
                                          !.lastUser = "submit"]
                /\ UNCHANGED store
           ELSE IF \/ form.tableId = 0
                   \/ selectedTable = {}
                   \/ form.covers = 0
                   \/ \E k \in selectedTable : form.covers > tables[k].capacity
           THEN /\ modal' = [modal EXCEPT !.error = TRUE,
                                          !.validationErrors = {},
                                          !.lastUser = "submit"]
                /\ UNCHANGED store
           ELSE /\ modal' = [modal EXCEPT
                                !.error = FALSE,
                                !.validationErrors = {},
                                !.lastUser = "submit",
                                !.open = FALSE,
                                !.sent = Append(@, payload)]
                /\ store' = IF modal.reservation # <<>>
                            THEN updateReservation(store, modal.reservation[1].id,
                                                   payload)
                            ELSE createReservation(store,
                                                   insertedRow(store, payload))
    /\ UNCHANGED <<modalFrame, pending>>

NextDetails ==
    \/ modalHandleFormChangeCovers
    \/ modalHandleFormChangeName
    \/ modalHandleFormChangeContact
    \/ modalHandleFormChangeStatus
    \/ modalHandleTimeSelect
    \/ modalHandleTableSelect
    \/ modalSetCurrentStep
    \/ modalHandleSubmit

SpecDetails == InitDetails /\ [][NextDetails]_vars

\* C27: every request sent has a non-blank name and contact, a table that
\* is among the loaded tables, and a party size of at least 1 and at most
\* that table's capacity.
RequestsWellFormed ==
    \A i \in 1..Len(modal.sent) :
        LET payload == modal.sent[i]
        IN  /\ trim(payload.customerName) # ""
            /\ trim(payload.contact) # ""
            /\ \E k \in 1..Len(tables) :
                  /\ tables[k].id = payload.tableId
                  /\ payload.covers <= tables[k].capacity
            /\ payload.covers >= 1

-----------------------------------------------------------------------------
(* ReservationsList: status changes and check amounts *)

AmountInputs == {0, 50}

\* the store holds one reservation, confirmed or paid with its amount
SavesStores ==
    { <<ReservationRow(1, 1, 4, <<17, 0>>, "CONFIRMED")>>,
      <<[ReservationRow(1, 1, 4, <<17, 0>>, "PAID") EXCEPT !.checkAmount = 50]>> }

\* api.getFinancialReport, lines 231-245
getFinancialReport(rows, startDate, endDate) ==
    LET reported(r) == /\ r.status = "PAID"
                       /\ r.date >= startDate /\ r.date <= endDate
                       /\ r.checkAmount # NoAmount
    IN  SelectSeq(rows, reported)

\* the list and a modal that edits the reservation (in another tab) work
\* on the same store; the list has started fetchData (lines 242-244)
InitSaves ==
    /\ LocalsInit
    /\ tz = 0 /\ date = DateOf(<<4, 0>>, 0) /\ covers = 2
    /\ settings = [turnoverMinutes |-> 60,
                   openingHours |-> OpeningHoursOf(<<Neighbours>>, TRUE)]
    /\ reservations = <<>> /\ tables = BookingTables /\ specialOpeningHours = <<>>
    /\ earlier = <<>> /\ sessions = <<>>
    /\ store \in SavesStores
    /\ session \in {"owner"} /\ authSession = session
    /\ activeView = "reservations" /\ authEvents = <<>>
    /\ dashboard = DashboardIdle
    /\ list = [ListIdle EXCEPT !.loading = TRUE]
    /\ modal = LoadedModal(<<store[1]>>, 4)
    /\ pending = <<>>

listFrame == <<inputs, locals, pc, result, earlier, sessions,
               session, activeView, authSession, authEvents, dashboard,
               modal, pending>>

\* lines 229-239: the answer to fetchData
ListFetchArrives ==
    /\ list.loading
    /\ list' = [list EXCEPT !.reservations = getReservationsByStatus(store, 4, "ALL"),
                            !.loading = FALSE]
    /\ UNCHANGED <<listFrame, store>>

\* lines 246-264: the status select of a row on screen (rows are shown when
\* not loading, line 339, and the amount dialog covers them)
handleStatusChange ==
    /\ ~list.loading /\ ~list.isAmountModalOpen
    /\ \E i \in 1..Len(list.reservations) :
       \E newStatus \in ReservationStatus \ {list.reservations[i].status} :
          LET reservationId == list.reservations[i].id
              updatePayload ==
                  IF list.reservations[i].status = "PAID"
                  THEN [status |-> newStatus, checkAmount |-> NoAmount]
                  ELSE [status |-> newStatus]
          IN  IF newStatus = "PAID"
              THEN /\ list' = [list EXCEPT !.currentReservationId = reservationId,
                                           !.isAmountModalOpen = TRUE]
                   /\ UNCHANGED store
              ELSE /\ store' = updateReservation(store, reservationId, updatePayload)
                   /\ list' = [list EXCEPT !.loading = TRUE]
    /\ UNCHANGED listFrame

\* lines 266-281: Save in the amount dialog (it passes on amounts >= 0)
handleAmountSubmit ==
    /\ list.isAmountModalOpen
    /\ \E amount \in AmountInputs :
          IF list.currentReservationId = 0
          THEN UNCHANGED <<store, list>>
          ELSE /\ store' = updateReservation(store, list.currentReservationId,
                                [status |-> "PAID", checkAmount |-> amount])
               /\ list' = [list EXCEPT !.loading = TRUE,
                                       !.isAmountModalOpen = FALSE,
                                       !.currentReservationId = 0]
    /\ UNCHANGED listFrame

\* line 297: Cancel in the amount dialog
CloseAmountModal ==
    /\ list.isAmountModalOpen
    /\ list' = [list EXCEPT !.isAmountModalOpen = FALSE]
    /\ UNCHANGED <<listFrame, store>>

NextSaves ==
    \/ ListFetchArrives
    \/ handleStatusChange
    \/ handleAmountSubmit
    \/ CloseAmountModal
    \/ modalHandleFormChangeStatus
    \/ modalHandleSubmit

SpecSaves == InitSaves /\ [][NextSaves]_vars

\* C28: a stored reservation is PAID iff it has a check amount, so every
\* PAID reservation of the range is in the financial report.
PaidIffAmount ==
    /\ \A i \in 1..Len(store) :
          store[i].status = "PAID" <=> store[i].checkAmount # NoAmount
    /\ \A i \in 1..Len(store) :
          store[i].status = "PAID" =>
              \E j \in 1..Len(getFinancialReport(store, 4, 5)) :
                  getFinancialReport(store, 4, 5)[j].id = store[i].id

====
